---- MODULE Spec2Model ----
(***************************************************************************)
(* Model of the TF-IDF search engine of search_engine.py (class            *)
(* SearchEngine) and of the /search endpoint of main.py.                   *)
(*                                                                         *)
(* Representation.                                                         *)
(*  - A Python str is a sequence of one-character strings.                 *)
(*  - A term is such a sequence too (a key of inverted_index).             *)
(*  - self.documents, an insertion-ordered dict, is a sequence of          *)
(*    [key, value] entries; the other dicts are functions whose DOMAIN is  *)
(*    the key set.                                                         *)
(*  - A float score is an exact rational [n, d] counted in millionths      *)
(*    (the natural logarithm is tabulated to six decimals); the rounded    *)
(*    score of a result record is an integer number of ten-thousandths.    *)
(*  - ret holds the last call: its name, its arguments and what it         *)
(*    returned.                                                            *)
(***************************************************************************)
EXTENDS Integers, Sequences, FiniteSets, TLC

VARIABLES documents, inverted_index, doc_word_counts, word_doc_frequency,
          next_doc_id, ret

engine == <<documents, inverted_index, doc_word_counts, word_doc_frequency,
            next_doc_id>>
vars == <<documents, inverted_index, doc_word_counts, word_doc_frequency,
          next_doc_id, ret>>

(***************************************************************************)
(* Bounds and input sets                                                   *)
(***************************************************************************)
MaxDocs == 2
MaxTopK == 2

\* The documents offered for ingestion, as (title, content):
\* ("T1", ""), ("T2", "a B a"), ("T1", "b!c"), ("T3", "Ab<TAB>a")
Inputs ==
  { [title |-> "T1", content |-> <<>>],
    [title |-> "T2", content |-> <<"a", " ", "B", " ", "a">>],
    [title |-> "T1", content |-> <<"b", "!", "c">>],
    [title |-> "T3", content |-> <<"A", "b", "\t", "a">>] }

\* "", " ", "!", "B", "c b", "a Z<NEWLINE>a"
Queries ==
  { <<>>,
    <<" ">>,
    <<"!">>,
    <<"B">>,
    <<"c", " ", "b">>,
    <<"a", " ", "Z", "\n", "a">> }

\* top_k: a negative value, zero, and the positive values up to MaxTopK
TopKs == (0 - 1) .. MaxTopK

(***************************************************************************)
(* Characters                                                              *)
(***************************************************************************)
UpperChars == <<"A", "B", "C", "D", "E", "F", "G", "H", "I", "J", "K", "L", "M",
                "N", "O", "P", "Q", "R", "S", "T", "U", "V", "W", "X", "Y", "Z">>
LowerChars == <<"a", "b", "c", "d", "e", "f", "g", "h", "i", "j", "k", "l", "m",
                "n", "o", "p", "q", "r", "s", "t", "u", "v", "w", "x", "y", "z">>
DigitChars == {"0", "1", "2", "3", "4", "5", "6", "7", "8", "9"}
WhitespaceChars == {" ", "\t", "\n", "\r", "\f"}

Range(s) == {s[i] : i \in 1..Len(s)}

\* str.lower() on one character
LowerChar(c) ==
  IF \E i \in 1..Len(UpperChars) : UpperChars[i] = c
  THEN LowerChars[CHOOSE i \in 1..Len(UpperChars) : UpperChars[i] = c]
  ELSE c

\* text.lower()
lower(text) == [i \in 1..Len(text) |-> LowerChar(text[i])]

\* re.sub(r'[^a-z0-9\s]', ' ', text)
re_sub(text) ==
  [i \in 1..Len(text) |->
     IF text[i] \in Range(LowerChars) \cup DigitChars \cup WhitespaceChars
     THEN text[i] ELSE " "]

\* text.split(): the maximal runs of non-whitespace characters, in order.
\* cur is the run being read, acc the runs already closed.
RECURSIVE SplitFrom(_, _, _, _)
SplitFrom(text, i, cur, acc) ==
  IF i > Len(text)
  THEN IF cur = <<>> THEN acc ELSE Append(acc, cur)
  ELSE IF text[i] \in WhitespaceChars
       THEN SplitFrom(text, i + 1, <<>>,
                      IF cur = <<>> THEN acc ELSE Append(acc, cur))
       ELSE SplitFrom(text, i + 1, Append(cur, text[i]), acc)

split(text) == SplitFrom(text, 1, <<>>, <<>>)

\* str.strip(): drop leading and trailing whitespace
RECURSIVE lstrip(_)
lstrip(text) ==
  IF text # <<>> /\ Head(text) \in WhitespaceChars THEN lstrip(Tail(text))
  ELSE text

RECURSIVE rstrip(_)
rstrip(text) ==
  IF text # <<>> /\ text[Len(text)] \in WhitespaceChars
  THEN rstrip(SubSeq(text, 1, Len(text) - 1))
  ELSE text

strip(text) == rstrip(lstrip(text))

\* SearchEngine._tokenize
_tokenize(text) ==
  LET words == split(re_sub(lower(text)))
  IN  SelectSeq(words, LAMBDA word : word # <<>>)

(***************************************************************************)
(* Python containers                                                       *)
(***************************************************************************)
\* dict[key] = value on an insertion-ordered dict: an existing key keeps its
\* place, a new key goes last.
DictSet(dict, key, value) ==
  IF \E i \in 1..Len(dict) : dict[i].key = key
  THEN [i \in 1..Len(dict) |->
          IF dict[i].key = key THEN [key |-> key, value |-> value] ELSE dict[i]]
  ELSE Append(dict, [key |-> key, value |-> value])

DictKeys(dict) == {dict[i].key : i \in 1..Len(dict)}

DictGet(dict, key) == dict[CHOOSE i \in 1..Len(dict) : dict[i].key = key].value

\* dict.values(), in insertion order
DictValues(dict) == [i \in 1..Len(dict) |-> dict[i].value]

\* f with f[key] set to value, key added to the domain if it is new
MapSet(f, key, value) ==
  [k \in DOMAIN f \cup {key} |-> IF k = key THEN value ELSE f[k]]

\* dict.get(key, default)
MapGet(f, key, default) == IF key \in DOMAIN f THEN f[key] ELSE default

\* sum(dict.values())
RECURSIVE SumValues(_)
SumValues(f) ==
  IF DOMAIN f = {} THEN 0
  ELSE LET k == CHOOSE x \in DOMAIN f : TRUE
       IN  f[k] + SumValues([x \in DOMAIN f \ {k} |-> f[x]])

\* The elements of a set of small positive ints in the order CPython iterates
\* them: hash(i) = i and the table has more slots than the largest id, so the
\* slots are visited in ascending id order.
RECURSIVE SetIterOrder(_)
SetIterOrder(S) ==
  IF S = {} THEN <<>>
  ELSE LET m == CHOOSE x \in S : \A y \in S : x <= y
       IN  <<m>> \o SetIterOrder(S \ {m})

(***************************************************************************)
(* Numbers                                                                 *)
(***************************************************************************)
RECURSIVE GCD(_, _)
GCD(a, b) == IF b = 0 THEN a ELSE GCD(b, a % b)

\* The rational n/d in lowest terms, d > 0 and n >= 0
Rat(n, d) ==
  LET g == GCD(n, d) IN [n |-> n \div g, d |-> d \div g]

RatAdd(a, b) == Rat(a.n * b.d + b.n * a.d, a.d * b.d)
RatMul(a, b) == Rat(a.n * b.n, a.d * b.d)
RatLess(a, b) == a.n * b.d < b.n * a.d

\* n/d rounded to the nearest integer, ties to even: Python's round()
RoundHalfEven(n, d) ==
  LET q == n \div d
      r == n % d
  IN  IF 2 * r > d THEN q + 1
      ELSE IF 2 * r < d THEN q
      ELSE IF q % 2 = 0 THEN q ELSE q + 1

\* ln(k), k = 1..16, in millionths
LnMicro == << 0, 693147, 1098612, 1386294, 1609438, 1791759, 1945910,
              2079442, 2197225, 2302585, 2397895, 2484907, 2564949,
              2639057, 2708050, 2772589 >>

\* math.log(a / b) in millionths, for ints a, b >= 1
math_log(a, b) == Rat(LnMicro[a] - LnMicro[b], 1)

(***************************************************************************)
(* Scorer                                                                  *)
(***************************************************************************)
\* The positions of the first posting of doc_id among entries, <<>> if none
PositionsIn(entries, doc_id) ==
  IF \E i \in 1..Len(entries) : entries[i].doc_id = doc_id
  THEN LET i0 == CHOOSE i \in 1..Len(entries) :
                   /\ entries[i].doc_id = doc_id
                   /\ \A j \in 1..(i - 1) : entries[j].doc_id # doc_id
       IN  entries[i0].positions
  ELSE <<>>

\* SearchEngine._calculate_tf
_calculate_tf(word, doc_id) ==
  LET word_count ==
        IF word \in DOMAIN inverted_index
        THEN Len(PositionsIn(inverted_index[word], doc_id))
        ELSE 0
      total_words == MapGet(doc_word_counts, doc_id, 1)
  IN  IF total_words > 0 THEN Rat(word_count, total_words) ELSE Rat(0, 1)

\* The logarithm with add-one smoothing, log(1 + N/df)
idf_smoothed(total_docs, docs_with_word) ==
  math_log(total_docs + docs_with_word, docs_with_word)

\* The logarithm of line 122, log(N/df)
idf_log(total_docs, docs_with_word) ==
  math_log(total_docs, docs_with_word)

\* SearchEngine._calculate_idf
_calculate_idf(word) ==
  LET total_docs == Len(documents)
      docs_with_word == MapGet(word_doc_frequency, word, 0)
  IN  IF total_docs = 0 THEN Rat(0, 1)
      ELSE IF docs_with_word = 0 THEN Rat(0, 1)
      ELSE idf_log(total_docs, docs_with_word)

\* SearchEngine._calculate_tfidf
_calculate_tfidf(word, doc_id) ==
  RatMul(_calculate_tf(word, doc_id), _calculate_idf(word))

(***************************************************************************)
(* add_document                                                            *)
(***************************************************************************)
\* The id allocator left where it is
next_id_stuck(doc_id) == doc_id

\* self.next_doc_id += 1
next_id(doc_id) == doc_id + 1

\* The document frequency counted once per occurrence
count_every_occurrence(wdf, word, unique_words_in_doc) ==
  MapSet(wdf, word, MapGet(wdf, word, 0) + 1)

\* Lines 167-169: count the document once per distinct word
count_document_frequency(wdf, word, unique_words_in_doc) ==
  IF word \notin unique_words_in_doc
  THEN MapSet(wdf, word, MapGet(wdf, word, 0) + 1)
  ELSE wdf

\* A posting appended for every occurrence
add_posting_always_new(idx, word, doc_id, position) ==
  MapSet(idx, word,
         Append(MapGet(idx, word, <<>>),
                [doc_id |-> doc_id, positions |-> <<position>>]))

\* The positions of an existing posting replaced instead of extended
add_posting_overwrite(idx, word, doc_id, position) ==
  LET entries == MapGet(idx, word, <<>>)
  IN  IF \E i \in 1..Len(entries) : entries[i].doc_id = doc_id
      THEN MapSet(idx, word,
                  [i \in 1..Len(entries) |->
                     IF entries[i].doc_id = doc_id
                     THEN [doc_id |-> doc_id, positions |-> <<position>>]
                     ELSE entries[i]])
      ELSE MapSet(idx, word,
                  Append(entries,
                         [doc_id |-> doc_id, positions |-> <<position>>]))

\* Lines 173-182: append position to the posting of (word, doc_id), creating
\* the posting (and, the index being a defaultdict, the key) when missing
add_posting(idx, word, doc_id, position) ==
  LET entries == MapGet(idx, word, <<>>)
      found == \E i \in 1..Len(entries) : entries[i].doc_id = doc_id
  IN  IF found
      THEN LET i0 == CHOOSE i \in 1..Len(entries) :
                       /\ entries[i].doc_id = doc_id
                       /\ \A j \in 1..(i - 1) : entries[j].doc_id # doc_id
           IN  MapSet(idx, word,
                      [entries EXCEPT ![i0].positions = Append(@, position)])
      ELSE MapSet(idx, word,
                  Append(entries,
                         [doc_id |-> doc_id, positions |-> <<position>>]))

\* The loop of lines 165-182; position is the zero-based index of the next
\* word to read
RECURSIVE index_words(_, _, _, _, _, _)
index_words(idx, wdf, unique_words_in_doc, words, position, doc_id) ==
  IF position >= Len(words)
  THEN [inverted_index |-> idx, word_doc_frequency |-> wdf]
  ELSE LET word == words[position + 1]
       IN  index_words(add_posting(idx, word, doc_id, position),
                       count_document_frequency(wdf, word, unique_words_in_doc),
                       unique_words_in_doc \cup {word},
                       words, position + 1, doc_id)

\* SearchEngine.add_document
add_document(title, content) ==
  LET doc_id == next_doc_id
      doc == [id |-> doc_id, title |-> title, content |-> content]
      words == _tokenize(content)
      built == index_words(inverted_index, word_doc_frequency, {}, words, 0,
                           doc_id)
  IN  /\ Len(documents) < MaxDocs
      /\ next_doc_id' = next_id(doc_id)
      /\ documents' = DictSet(documents, doc_id, doc)
      /\ doc_word_counts' = MapSet(doc_word_counts, doc_id, Len(words))
      /\ inverted_index' = built.inverted_index
      /\ word_doc_frequency' = built.word_doc_frequency
      /\ ret' = [op |-> "add_document", title |-> title, content |-> content,
                 result |-> doc_id]

(***************************************************************************)
(* search                                                                  *)
(***************************************************************************)
\* The postings read through the defaultdict without the membership test:
\* a missing key is inserted with an empty list
postings_unguarded(idx, word) ==
  [index |-> MapSet(idx, word, MapGet(idx, word, <<>>)),
   postings |-> MapGet(idx, word, <<>>)]

\* Lines 209-210 (and 90-91): "if word in self.inverted_index" guards every
\* read of self.inverted_index[word], so no key is inserted
postings_guarded(idx, word) ==
  [index |-> idx,
   postings |-> IF word \in DOMAIN idx THEN idx[word] ELSE <<>>]

\* The candidate loop of lines 207-212, from word i on: the index as the
\* reads leave it and the set of candidate ids
RECURSIVE collect_candidates(_, _, _, _)
collect_candidates(idx, query_words, i, candidate_docs) ==
  IF i > Len(query_words)
  THEN [index |-> idx, candidate_docs |-> candidate_docs]
  ELSE LET read == postings_guarded(idx, query_words[i])
       IN  collect_candidates(
             read.index, query_words, i + 1,
             candidate_docs \cup
               {read.postings[j].doc_id : j \in 1..Len(read.postings)})

\* Every stored document taken as a candidate
candidates_all_documents(query_words) == DictKeys(documents)

\* Lines 207-212: the ids of the documents with a posting for a query word
candidates_of(query_words) ==
  collect_candidates(inverted_index, query_words, 1, {}).candidate_docs

\* Lines 220-223: the sum of the TF-IDF of the query words, repeats included
RECURSIVE score_from(_, _, _, _)
score_from(query_words, i, doc_id, score) ==
  IF i > Len(query_words) THEN score
  ELSE score_from(query_words, i + 1, doc_id,
                  RatAdd(score, _calculate_tfidf(query_words[i], doc_id)))

doc_score(query_words, doc_id) == score_from(query_words, 1, doc_id, Rat(0, 1))

\* doc_scores.items(): one (doc_id, score) pair per candidate, in the
\* iteration order of the candidate set
doc_scores(query_words) ==
  LET order == SetIterOrder(candidates_of(query_words))
  IN  [i \in 1..Len(order) |->
         [doc_id |-> order[i], score |-> doc_score(query_words, order[i])]]

\* x put into a list sorted by ascending score
insert_ascending(sorted, x) ==
  LET before == {i \in 1..Len(sorted) : ~ RatLess(x.score, sorted[i].score)}
      k == Cardinality(before)
  IN  SubSeq(sorted, 1, k) \o <<x>> \o SubSeq(sorted, k + 1, Len(sorted))

\* x put into a list sorted by descending score, after the elements whose
\* score is not smaller (the sort is stable)
insert_descending(sorted, x) ==
  LET before == {i \in 1..Len(sorted) : ~ RatLess(sorted[i].score, x.score)}
      k == Cardinality(before)
  IN  SubSeq(sorted, 1, k) \o <<x>> \o SubSeq(sorted, k + 1, Len(sorted))

\* sorted(items, key=lambda x: x[1], reverse=True), line 227
RECURSIVE sort_from(_, _, _)
sort_from(items, i, sorted) ==
  IF i > Len(items) THEN sorted
  ELSE sort_from(items, i + 1, insert_descending(sorted, items[i]))

sorted_docs(query_words) == sort_from(doc_scores(query_words), 1, <<>>)

\* seq[:k], Python's slice: a negative k counts from the end
slice_to(seq, k) ==
  IF k >= 0
  THEN SubSeq(seq, 1, IF k < Len(seq) THEN k ELSE Len(seq))
  ELSE SubSeq(seq, 1, IF Len(seq) + k > 0 THEN Len(seq) + k ELSE 0)

SnippetLen == 200

\* Line 236
snippet_of(content) ==
  IF Len(content) > SnippetLen
  THEN SubSeq(content, 1, SnippetLen) \o <<".", ".", ".">>
  ELSE content

\* round(score, 4), in ten-thousandths; score is in millionths
round4(score) == RoundHalfEven(score.n, score.d * 100)

\* Lines 231-244
result_record(entry) ==
  LET doc == DictGet(documents, entry.doc_id)
  IN  [id |-> entry.doc_id, title |-> doc.title, content |-> doc.content,
       snippet |-> snippet_of(doc.content), score |-> round4(entry.score)]

\* What SearchEngine.search returns
search_result(query, top_k) ==
  LET query_words == _tokenize(query)
  IN  IF query_words = <<>> THEN <<>>
      ELSE IF candidates_of(query_words) = {} THEN <<>>
      ELSE LET top_docs == slice_to(sorted_docs(query_words), top_k)
           IN  [i \in 1..Len(top_docs) |-> result_record(top_docs[i])]

\* self.inverted_index as SearchEngine.search leaves it
index_after_search(query) ==
  collect_candidates(inverted_index, _tokenize(query), 1, {}).index

\* SearchEngine.search
search(query, top_k) ==
  /\ ret' = [op |-> "search", query |-> query, top_k |-> top_k,
             result |-> search_result(query, top_k)]
  /\ inverted_index' = index_after_search(query)
  /\ UNCHANGED <<documents, doc_word_counts, word_doc_frequency, next_doc_id>>

(***************************************************************************)
(* get_stats, get_all_documents                                            *)
(***************************************************************************)
\* The number of postings of the whole index
RECURSIVE CountPostings(_)
CountPostings(idx) ==
  IF DOMAIN idx = {} THEN 0
  ELSE LET k == CHOOSE x \in DOMAIN idx : TRUE
       IN  Len(idx[k]) + CountPostings([x \in DOMAIN idx \ {k} |-> idx[x]])

\* The statistics with unique_words counting postings instead of keys
stats_result_counting_postings ==
  LET total_words == SumValues(doc_word_counts)
      unique_words == CountPostings(inverted_index)
  IN  [total_documents |-> Len(documents),
       total_words_indexed |-> total_words,
       unique_words |-> unique_words,
       average_words_per_document |->
         IF Len(documents) > 0
         THEN RoundHalfEven(total_words * 100, Len(documents))
         ELSE 0]

\* What SearchEngine.get_stats returns; the average is in hundredths
stats_result ==
  LET total_words == SumValues(doc_word_counts)
      unique_words == Cardinality(DOMAIN inverted_index)
  IN  [total_documents |-> Len(documents),
       total_words_indexed |-> total_words,
       unique_words |-> unique_words,
       average_words_per_document |->
         IF Len(documents) > 0
         THEN RoundHalfEven(total_words * 100, Len(documents))
         ELSE 0]

\* SearchEngine.get_stats
get_stats ==
  /\ ret' = [op |-> "get_stats", result |-> stats_result]
  /\ UNCHANGED engine

\* What SearchEngine.get_all_documents returns
all_documents_result ==
  LET values == DictValues(documents)
  IN  [i \in 1..Len(values) |->
         [id |-> values[i].id, title |-> values[i].title,
          content |-> values[i].content]]

\* SearchEngine.get_all_documents
get_all_documents ==
  /\ ret' = [op |-> "get_all_documents", result |-> all_documents_result]
  /\ UNCHANGED engine

(***************************************************************************)
(* main.py: GET /search                                                    *)
(***************************************************************************)
\* The response echoing the query with its surrounding whitespace stripped
main_search_response_stripped(q, top_k) ==
  IF strip(q) = <<>>
  THEN [results |-> <<>>, query |-> strip(q), message |-> "Empty query"]
  ELSE [results |-> search_result(q, top_k), query |-> strip(q),
        count |-> Len(search_result(q, top_k))]

\* The response of lines 97-105
main_search_response(q, top_k) ==
  IF strip(q) = <<>>
  THEN [results |-> <<>>, query |-> q, message |-> "Empty query"]
  ELSE [results |-> search_result(q, top_k), query |-> q,
        count |-> Len(search_result(q, top_k))]

\* main.search
main_search(q, top_k) ==
  /\ ret' = [op |-> "main_search", query |-> q, top_k |-> top_k,
             result |-> main_search_response(q, top_k)]
  /\ inverted_index' = IF strip(q) = <<>> THEN inverted_index
                       ELSE index_after_search(q)
  /\ UNCHANGED <<documents, doc_word_counts, word_doc_frequency, next_doc_id>>

(***************************************************************************)
(* Specification                                                           *)
(***************************************************************************)
\* SearchEngine.__init__
Init ==
  /\ documents = <<>>
  /\ inverted_index = <<>>
  /\ doc_word_counts = <<>>
  /\ word_doc_frequency = <<>>
  /\ next_doc_id = 1
  /\ ret = [op |-> "init"]

AddDocument == \E doc \in Inputs : add_document(doc.title, doc.content)

Search == \E query \in Queries, top_k \in TopKs : search(query, top_k)

GetStats == get_stats

GetAllDocuments == get_all_documents

MainSearch == \E q \in Queries, top_k \in TopKs : main_search(q, top_k)

Next ==
  \/ AddDocument
  \/ Search
  \/ GetStats
  \/ GetAllDocuments
  \/ MainSearch

Spec == Init /\ [][Next]_vars

(***************************************************************************)
(* Properties                                                              *)
(***************************************************************************)
\* The stored ids, the tokens of a stored document, the documents holding a term
DocIds == DictKeys(documents)
TokensOf(doc_id) == _tokenize(DictGet(documents, doc_id).content)
Holders(term) == {d \in DocIds : term \in Range(TokensOf(d))}
IndexedTerms == UNION {Range(TokensOf(d)) : d \in DocIds}
Min(a, b) == IF a < b THEN a ELSE b
ResultIds(result) == {result[i].id : i \in 1..Len(result)}

\* C1: search(query, top_k) returns the first top_k entries of the ranked
\* candidate list: never more than top_k results, nothing when top_k <= 0,
\* every candidate when top_k exceeds the candidate count.
C1_SearchTruncatesToTopK ==
  ret.op = "search" =>
    LET ranked == sorted_docs(_tokenize(ret.query))
        kept == IF ret.top_k <= 0 THEN 0 ELSE Min(ret.top_k, Len(ranked))
    IN  /\ Len(ret.result) = kept
        /\ \A i \in 1..Len(ret.result) : ret.result[i].id = ranked[i].doc_id

\* C2: every document search returns holds at least one tokenized query term
\* in its tokenized content, no id is returned twice, and a query with no
\* terms or with no matching document returns nothing.
C2_ResultsHoldAQueryTerm ==
  ret.op = "search" =>
    LET query_words == _tokenize(ret.query)
        result == ret.result
    IN  /\ \A i \in 1..Len(result) :
             /\ result[i].id \in DocIds
             /\ Range(query_words) \cap Range(TokensOf(result[i].id)) # {}
        /\ \A i, j \in 1..Len(result) : result[i].id = result[j].id => i = j
        /\ (\A d \in DocIds : Range(query_words) \cap Range(TokensOf(d)) = {})
             => result = <<>>

C2_Witness ==
  /\ ret.op = "search"
  /\ Len(ret.result) >= 1
  /\ Cardinality(Range(_tokenize(ret.query))
                 \cap Range(TokensOf(ret.result[1].id))) >= 2
  /\ \E d \in DocIds : d \notin ResultIds(ret.result)

\* C3: the sequence search returns is ordered by non-increasing score, the
\* score being the sum over the query's terms of tfidf(term, doc); the
\* rounded scores of the records are in the same order.
C3_ResultsByDescendingScore ==
  ret.op = "search" =>
    LET query_words == _tokenize(ret.query)
        result == ret.result
    IN  \A i \in 1..(Len(result) - 1) :
          /\ ~ RatLess(doc_score(query_words, result[i].id),
                       doc_score(query_words, result[i + 1].id))
          /\ result[i].score >= result[i + 1].score

C3_Witness ==
  /\ ret.op = "search"
  /\ Len(ret.result) >= 2
  /\ ret.result[1].id > ret.result[2].id
  /\ ret.result[1].score > ret.result[2].score

\* C4: search and get_stats leave documents, inverted_index (its key set
\* included), doc_word_counts, word_doc_frequency and next_doc_id as they
\* were, and the same call made twice in a row returns the same result.
C4_ReadStep ==
  ret'.op \in {"search", "get_stats"} =>
    /\ UNCHANGED engine
    /\ DOMAIN inverted_index' = DOMAIN inverted_index
    /\ (ret.op = "get_stats" /\ ret'.op = "get_stats")
         => ret'.result = ret.result
    /\ (/\ ret.op = "search" /\ ret'.op = "search"
        /\ ret'.query = ret.query /\ ret'.top_k = ret.top_k)
         => ret'.result = ret.result

C4_ReadsAreReadOnly == [][C4_ReadStep]_vars

C4_Witness ==
  /\ ret.op = "search"
  /\ ret.result # <<>>
  /\ \E w \in Range(_tokenize(ret.query)) : w \notin DOMAIN inverted_index

\* C5: ids are assigned 1, 2, 3, ... and never reused: the n-th add_document
\* returns n, the stored ids are 1..n, next_doc_id is n+1, every record
\* keeps the title and content it was ingested with, and get_all_documents
\* lists the records in ascending id order.
C5_State ==
  LET n == Len(documents)
  IN  /\ DocIds = 1..n
      /\ next_doc_id = n + 1
      /\ \A i \in 1..n : documents[i].key = i /\ documents[i].value.id = i
      /\ Len(all_documents_result) = n
      /\ \A i \in 1..n : all_documents_result[i].id = i
      /\ ret.op = "get_all_documents" =>
           /\ Len(ret.result) = n
           /\ \A i \in 1..n : ret.result[i] =
                [id |-> i, title |-> documents[i].value.title,
                 content |-> documents[i].value.content]
      /\ ret.op = "add_document" =>
           /\ ret.result = n
           /\ documents[n].value =
                [id |-> n, title |-> ret.title, content |-> ret.content]

C5_Step ==
  /\ Len(documents') >= Len(documents)
  /\ \A i \in 1..Len(documents) : documents'[i] = documents[i]

C5_SequentialIds == [](C5_State) /\ [][C5_Step]_vars

C5_Witness ==
  /\ ret.op = "get_all_documents"
  /\ Len(ret.result) >= 2
  /\ ret.result[1].title # ret.result[2].title

\* C6 as stated: for every query string, blank ones included, the Query
\* operation returns the result records, their count and the query echoed.
C6_QueryAlwaysReturnsCount ==
  ret.op = "main_search" =>
    /\ DOMAIN ret.result = {"results", "query", "count"}
    /\ ret.result.results = search_result(ret.query, ret.top_k)
    /\ ret.result.count = Len(ret.result.results)
    /\ ret.result.query = ret.query

\* C6, amended: for a query that is not empty or whitespace-only the Query
\* operation returns the engine's result records, their count and the query
\* echoed; for an empty or whitespace-only query it returns no records, the
\* query echoed and the message "Empty query", without a count.
C6_QueryResponse ==
  ret.op = "main_search" =>
    IF strip(ret.query) # <<>>
    THEN /\ DOMAIN ret.result = {"results", "query", "count"}
         /\ ret.result.results = search_result(ret.query, ret.top_k)
         /\ ret.result.count = Len(ret.result.results)
         /\ ret.result.query = ret.query
    ELSE /\ DOMAIN ret.result = {"results", "query", "message"}
         /\ ret.result.results = <<>>
         /\ ret.result.message = "Empty query"
         /\ ret.result.query = ret.query

C6_Witness ==
  /\ ret.op = "main_search"
  /\ ret.query # <<>>
  /\ strip(ret.query) = <<>>
  /\ documents # <<>>

\* C7: get_stats returns total_documents = number of stored documents,
\* total_words_indexed = sum of the document lengths, unique_words = number
\* of distinct terms occurring in some ingested document (no index key has
\* an empty posting list), and an average of 0 when there are no documents.
RECURSIVE TotalTokens(_)
TotalTokens(ids) ==
  IF ids = {} THEN 0
  ELSE LET d == CHOOSE x \in ids : TRUE
       IN  Len(TokensOf(d)) + TotalTokens(ids \ {d})

C7_StatsMatchIndex ==
  ret.op = "get_stats" =>
    /\ ret.result.total_documents = Cardinality(DocIds)
    /\ ret.result.total_words_indexed = TotalTokens(DocIds)
    /\ ret.result.unique_words = Cardinality(IndexedTerms)
    /\ \A w \in DOMAIN inverted_index : inverted_index[w] # <<>>
    /\ DocIds = {} => ret.result.average_words_per_document = 0
    /\ DocIds # {} =>
         ret.result.average_words_per_document =
           RoundHalfEven(TotalTokens(DocIds) * 100, Cardinality(DocIds))

C7_Witness ==
  /\ ret.op = "get_stats"
  /\ ret.result.total_documents >= 2
  /\ ret.result.unique_words >= 2
  /\ ret.result.unique_words < ret.result.total_words_indexed

C9_DocumentFrequencyCountsPostings ==
  \A t \in DOMAIN word_doc_frequency \cup DOMAIN inverted_index
             \cup IndexedTerms :
    /\ MapGet(word_doc_frequency, t, 0) = Len(MapGet(inverted_index, t, <<>>))
    /\ MapGet(word_doc_frequency, t, 0) = Cardinality(Holders(t))

C9_Witness ==
  \E t \in DOMAIN word_doc_frequency :
    /\ word_doc_frequency[t] >= 2
    /\ \E i \in 1..Len(inverted_index[t]) :
         Len(inverted_index[t][i].positions) >= 2

\* C10: the index holds at most one posting per (term, document id), the
\* positions of a posting are strictly increasing and are exactly the
\* zero-based positions of the term in the document's token sequence, and
\* ingesting a later document never changes a posting of an earlier one.
OccurrencesOf(term, doc_id) ==
  {p \in 0..(Len(TokensOf(doc_id)) - 1) : TokensOf(doc_id)[p + 1] = term}

C10_State ==
  /\ \A t \in DOMAIN inverted_index :
       LET entries == inverted_index[t]
       IN  /\ \A i, j \in 1..Len(entries) :
                entries[i].doc_id = entries[j].doc_id => i = j
           /\ \A i \in 1..Len(entries) :
                LET positions == entries[i].positions
                IN  /\ entries[i].doc_id \in DocIds
                    /\ \A a \in 1..(Len(positions) - 1) :
                         positions[a] < positions[a + 1]
                    /\ Range(positions) = OccurrencesOf(t, entries[i].doc_id)
  /\ \A d \in DocIds : \A t \in Range(TokensOf(d)) :
       /\ t \in DOMAIN inverted_index
       /\ \E i \in 1..Len(inverted_index[t]) : inverted_index[t][i].doc_id = d

C10_Step ==
  \A t \in DOMAIN inverted_index :
    /\ t \in DOMAIN inverted_index'
    /\ \A i \in 1..Len(inverted_index[t]) :
         /\ i <= Len(inverted_index'[t])
         /\ inverted_index'[t][i] = inverted_index[t][i]

C10_OnePostingPerTermAndDocument == [](C10_State) /\ [][C10_Step]_vars

C10_Witness ==
  /\ Cardinality(DocIds) >= 2
  /\ \E t \in DOMAIN inverted_index :
       /\ Len(inverted_index[t]) >= 2
       /\ inverted_index[t][1].positions = <<0, 2>>
       /\ Len(inverted_index[t][2].positions) >= 2

\* C11: for every stored document the numbers of positions of its postings,
\* summed over all terms, equal doc_word_counts of the document, which is the
\* number of tokens of its content and is never changed by a later
\* ingestion; a document with empty content has length 0 and no postings.
RECURSIVE PositionsOfDocIn(_, _)
PositionsOfDocIn(entries, doc_id) ==
  IF entries = <<>> THEN 0
  ELSE (IF Head(entries).doc_id = doc_id
        THEN Len(Head(entries).positions) ELSE 0)
       + PositionsOfDocIn(Tail(entries), doc_id)

RECURSIVE PostedPositions(_, _)
PostedPositions(terms, doc_id) ==
  IF terms = {} THEN 0
  ELSE LET t == CHOOSE x \in terms : TRUE
       IN  PositionsOfDocIn(inverted_index[t], doc_id)
           + PostedPositions(terms \ {t}, doc_id)

HasPosting(doc_id) ==
  \E t \in DOMAIN inverted_index :
    \E i \in 1..Len(inverted_index[t]) : inverted_index[t][i].doc_id = doc_id

C11_State ==
  /\ DOMAIN doc_word_counts = DocIds
  /\ \A d \in DocIds :
       /\ PostedPositions(DOMAIN inverted_index, d) = doc_word_counts[d]
       /\ doc_word_counts[d] = Len(TokensOf(d))
       /\ DictGet(documents, d).content = <<>> =>
            /\ doc_word_counts[d] = 0
            /\ ~ HasPosting(d)

C11_Step ==
  \A d \in DOMAIN doc_word_counts :
    /\ d \in DOMAIN doc_word_counts'
    /\ doc_word_counts'[d] = doc_word_counts[d]

C11_PostingsSumToDocumentLength == [](C11_State) /\ [][C11_Step]_vars

C11_Witness ==
  /\ Cardinality(DocIds) >= 2
  /\ DictGet(documents, 1).content = <<>>
  /\ doc_word_counts[1] = 0
  /\ doc_word_counts[2] = 3
  /\ \E t \in DOMAIN inverted_index :
       Len(inverted_index[t][1].positions) = 2

====
